---- MODULE Spec2Model ----
(***************************************************************************)
(* Bootstrap standard error of an OLS slope (package riskmeasures).        *)
(*                                                                         *)
(* The model covers the validation helpers (utils.py), simulate_data       *)
(* (simulation.py), estimate_beta, bootstrap_samples, sample_std and       *)
(* bootstrap_beta (methods.py) and the pipeline of cli.main (cli.py).      *)
(*                                                                         *)
(* Numbers.  The code computes in binary floating point (numpy float64,    *)
(* round to nearest, ties to even).  The model keeps that arithmetic but   *)
(* with a significand of Prec bits instead of 53 and an unbounded          *)
(* exponent: a finite value is m * 2^e with m odd (or m = 0, e = 0), and   *)
(* every operation rounds its exact result to Prec significant bits.       *)
(* NaN and the infinities are values of their own.                         *)
(*                                                                         *)
(* Randomness.  np.random.default_rng(seed) is a deterministic generator:  *)
(* its stream is a function of the seed alone.  The model uses a small     *)
(* linear congruential generator in its place.  default_rng() without a    *)
(* seed reads operating-system entropy: a nondeterministic choice.         *)
(***************************************************************************)
EXTENDS Integers, Sequences, FiniteSets

(* ------------------------------ bounds --------------------------------- *)

\* Significand width of the modelled floating-point format (53 in float64).
Prec == 3
\* Largest number of rows of a dataset and of N in simulate_data.
MaxN == 3
\* Largest number B of bootstrap resamples.
MaxB == 3
\* Largest supplied seed; fresh seeds are drawn from 0..MaxSeed as well.
MaxSeed == 2
\* Largest n_jobs.
MaxJobs == 2

(* ------------------------------- state --------------------------------- *)

VARIABLES
    pc,       \* "idle": no call in progress; "refit": bootstrap_beta is refitting
    call,     \* the arguments of the current (or last) call
    frame,    \* "api": the call came from outside; "main": from cli.main
    run,      \* cli.main's locals: the seed in use and what it was passed to
    samples,  \* bootstrap_beta's resample batch
    betas,    \* bootstrap_beta's refit tasks, one slot per resample
    rng,      \* the generator the current call created, with its draw count
    entropy,  \* how often the current call read operating-system entropy
    outcome,  \* what the last finished call returned or raised
    ref       \* the outcome of the call before, when the current call repeats it

vars == <<pc, call, frame, run, samples, betas, rng, entropy, outcome, ref>>

(* --------------------------- floating point ---------------------------- *)

RECURSIVE Pow2(_)
Pow2(n) == IF n <= 0 THEN 1 ELSE 2 * Pow2(n - 1)

Abs(n) == IF n < 0 THEN -n ELSE n
Sgn(n) == IF n < 0 THEN -1 ELSE 1
Min(a, b) == IF a <= b THEN a ELSE b

\* Number of bits of a natural number (0 for 0).
RECURSIVE BitLen(_)
BitLen(n) == IF n = 0 THEN 0 ELSE 1 + BitLen(n \div 2)

Fin(m, e) == [k |-> "fin", m |-> m, e |-> e]
NaN       == [k |-> "nan", m |-> 0, e |-> 0]
PosInf    == [k |-> "inf", m |-> 1, e |-> 0]
NegInf    == [k |-> "inf", m |-> -1, e |-> 0]
Zero      == Fin(0, 0)
One       == Fin(1, 0)

IsFinite(a) == a.k = "fin"

\* The canonical form of m * 2^e: m odd, or 0 * 2^0.
RECURSIVE Norm(_, _)
Norm(m, e) ==
    IF m = 0 THEN Zero
    ELSE IF m % 2 = 0 THEN Norm(m \div 2, e + 1)
    ELSE Fin(m, e)

\* sg * q * 2^e with q the kept bits, r the dropped ones and half their
\* midpoint: up when above the midpoint, to even on it.
RoundCut(sg, q, r, half, e) ==
    Norm(sg * (IF r > half \/ (r = half /\ q % 2 = 1) THEN q + 1 ELSE q), e)

\* m * 2^e with the k lowest bits of m dropped.
RoundAt(m, e, k) ==
    IF k <= 0 THEN Norm(m, e)
    ELSE RoundCut(Sgn(m), Abs(m) \div Pow2(k), Abs(m) % Pow2(k), Pow2(k - 1), e + k)

\* m * 2^e rounded to Prec significant bits, to nearest, ties to even.
Round(m, e) == RoundAt(m, e, BitLen(Abs(m)) - Prec)

\* float(n) of a Python int.
FromInt(n) == Round(n, 0)

FNeg(a) == IF a.k = "nan" THEN NaN ELSE [a EXCEPT !.m = -a.m]

\* Sum of two finite nonzero values, big.e >= small.e.  When the exponents are
\* so far apart that the smaller operand is below an eighth of the last place
\* of the larger one, the rounded sum is the larger operand.
AddOrdered(big, small) ==
    IF big.e - small.e >= 2 * Prec + 2 THEN big
    ELSE Round(big.m * Pow2(big.e - small.e) + small.m, small.e)

FinAdd(a, b) ==
    IF a.m = 0 THEN b
    ELSE IF b.m = 0 THEN a
    ELSE IF a.e >= b.e THEN AddOrdered(a, b)
    ELSE AddOrdered(b, a)

FAdd(a, b) ==
    IF a.k = "nan" \/ b.k = "nan" THEN NaN
    ELSE IF a.k = "inf" /\ b.k = "inf" THEN (IF a.m = b.m THEN a ELSE NaN)
    ELSE IF a.k = "inf" THEN a
    ELSE IF b.k = "inf" THEN b
    ELSE FinAdd(a, b)

FSub(a, b) == FAdd(a, FNeg(b))

FMul(a, b) ==
    IF a.k = "nan" \/ b.k = "nan" THEN NaN
    ELSE IF a.k = "inf" \/ b.k = "inf"
         THEN (IF a.m = 0 \/ b.m = 0 THEN NaN
               ELSE IF Sgn(a.m) = Sgn(b.m) THEN PosInf ELSE NegInf)
    ELSE Round(a.m * b.m, a.e + b.e)

\* sg * (num / den) * 2^e: the integer quotient doubled, with a last bit that
\* records a nonzero remainder, rounded.
DivScaled(num, den, sg, e) ==
    Round(sg * (2 * (num \div den) + (IF num % den = 0 THEN 0 ELSE 1)), e - 1)

\* Quotient of two finite values; the quotient of the significands is taken
\* to at least Prec + 2 bits.  A zero divisor gives an infinity, 0 / 0 NaN.
FDiv(a, b) ==
    IF b.m = 0 THEN (IF a.m = 0 THEN NaN ELSE IF a.m > 0 THEN PosInf ELSE NegInf)
    ELSE IF a.m = 0 THEN Zero
    ELSE DivScaled(Abs(a.m) * Pow2(2 * Prec + 2), Abs(b.m), Sgn(a.m) * Sgn(b.m),
                   a.e - b.e - (2 * Prec + 2))

\* Largest r with r * r <= n.
RECURSIVE ISqrtBits(_, _, _)
ISqrtBits(n, r, bit) ==
    IF bit = 0 THEN r
    ELSE ISqrtBits(n, IF (r + bit) * (r + bit) <= n THEN r + bit ELSE r, bit \div 2)

ISqrt(n) == ISqrtBits(n, 0, Pow2(BitLen(n) \div 2))

\* sqrt(mm * 2^ee), ee even, s the integer root of mm: the root doubled, with a
\* last bit that records an inexact root, rounded.
SqrtRound(mm, ee, s) == Round(2 * s + (IF s * s = mm THEN 0 ELSE 1), (ee \div 2) - 1)

\* The shift that makes the exponent of a even and its root long enough.
SqrtShift(a) == 2 * Prec + 4 + (IF a.e % 2 = 0 THEN 0 ELSE 1)

\* Square root (NaN below zero), correctly rounded.
FSqrt(a) ==
    IF a.k = "nan" THEN NaN
    ELSE IF a.k = "inf" THEN (IF a.m > 0 THEN PosInf ELSE NaN)
    ELSE IF a.m = 0 THEN Zero
    ELSE IF a.m < 0 THEN NaN
    ELSE SqrtRound(a.m * Pow2(SqrtShift(a)), a.e - SqrtShift(a),
                   ISqrt(a.m * Pow2(SqrtShift(a))))

FLess(a, b) ==
    \* a < b for finite values.
    a.m * Pow2(a.e - Min(a.e, b.e)) < b.m * Pow2(b.e - Min(a.e, b.e))

FAbsLess(a, b) ==
    \* |a| < |b| for finite values.
    FLess([a EXCEPT !.m = Abs(a.m)], [b EXCEPT !.m = Abs(b.m)])

(* --------------------------- Python values ----------------------------- *)

PyNone     == [t |-> "NoneType", v |-> 0]
PyInt(n)   == [t |-> "int", v |-> n]
PyBool(n)  == [t |-> "bool", v |-> n]
PyFloat(n) == [t |-> "float", v |-> n]

\* What a call gives back: a value, or the exception it raised with the
\* function that raised it and the argument it names.
Value(v)         == [kind |-> "value", exc |-> "", by |-> "", arg |-> "", val |-> v]
Err(exc, by, arg) == [kind |-> "error", exc |-> exc, by |-> by, arg |-> arg, val |-> <<>>]
NoOutcome        == [kind |-> "none", exc |-> "", by |-> "", arg |-> "", val |-> <<>>]

IsErr(o) == o.kind = "error"
IsVal(o) == o.kind = "value"

(* ------------------------------ utils.py ------------------------------- *)

\* A faulty validate_int: the lower bound is compared off by one.
validate_int_loose(name, value, lo) ==
    IF value.t = "bool" \/ value.t # "int" THEN Err("TypeError", "validate_int", name)
    ELSE IF value.v < lo - 1 THEN Err("ValueError", "validate_int", name)
    ELSE Value(value.v)

\* validate_int(name, value, min_value=lo): bool is rejected before int.
validate_int(name, value, lo) ==
    IF value.t = "bool" \/ value.t # "int" THEN Err("TypeError", "validate_int", name)
    ELSE IF value.v < lo THEN Err("ValueError", "validate_int", name)
    ELSE Value(value.v)

\* validate_real(name, value, finite=True) on a float argument.
validate_real(name, value) ==
    IF ~IsFinite(value) THEN Err("ValueError", "validate_real", name)
    ELSE Value(value)

\* validate_positive(name, value).
validate_positive(name, value) ==
    LET r == validate_real(name, value)
    IN  IF IsErr(r) THEN r
        ELSE IF value.m <= 0 THEN Err("ValueError", "validate_positive", name)
        ELSE r

\* validate_xy_data(data, min_rows): data is a two-dimensional numeric array,
\* a sequence of rows of equal length.
validate_xy_data(data, min_rows) ==
    IF Len(data) > 0 /\ Len(data[1]) # 2
    THEN Err("ValueError", "validate_xy_data", "columns")
    ELSE IF Len(data) < min_rows
    THEN Err("ValueError", "validate_xy_data", "rows")
    ELSE IF \E i \in 1..Len(data) : \E j \in 1..2 : ~IsFinite(data[i][j])
    THEN Err("ValueError", "validate_xy_data", "finite")
    ELSE Value(data)

(* ------------------------ the random generator ------------------------- *)

\* One step of the generator's state.
LcgStep(s) == (75 * s + 74) % 65537

\* A faulty default_rng: the generator made for a seed is kept and handed out
\* again, in the state the last draws left it in.
default_rng_cached(seed) ==
    IF rng.seed = seed THEN rng
    ELSE [seed |-> seed, state |-> LcgStep(LcgStep((seed * 2654 + 1) % 65537)), drawn |-> 0]

\* np.random.default_rng(seed) for a nonnegative int: a generator whose state
\* depends on the seed alone, with nothing drawn yet.
default_rng(seed) == [seed |-> seed, state |-> LcgStep(LcgStep((seed * 2654 + 1) % 65537)), drawn |-> 0]

\* The generator after k more draws.
RECURSIVE Advance(_, _)
Advance(g, k) ==
    IF k = 0 THEN g
    ELSE Advance([g EXCEPT !.state = LcgStep(g.state), !.drawn = g.drawn + 1], k - 1)

\* The k-th next raw output (k >= 1) of the generator.
RawAt(g, k) == Advance(g, k).state \div 256

\* np.random.default_rng(seed) as simulate_data calls it, on an unvalidated
\* seed: numpy itself raises on a negative int and on a float, and takes a
\* bool as the int it is.
numpy_default_rng(seed, fresh) ==
    IF seed.t = "NoneType" THEN Value(default_rng(fresh))
    ELSE IF seed.t = "float" THEN Err("TypeError", "numpy", "seed")
    ELSE IF seed.v < 0 THEN Err("ValueError", "numpy", "seed")
    ELSE Value(default_rng(seed.v))

\* validate_rng_seed(seed): with no seed one is drawn from the operating
\* system's entropy (fresh); the seed then passes validate_int.  Gives the
\* seed, the generator and whether entropy was read.
validate_rng_seed(seed, fresh) ==
    LET s == IF seed.t = "NoneType" THEN PyInt(fresh) ELSE seed
        r == validate_int("seed", s, 0)
    IN  IF IsErr(r) THEN r
        ELSE Value([seed |-> r.val, rng |-> default_rng(r.val),
                    entropy |-> IF seed.t = "NoneType" THEN 1 ELSE 0])

(* ----------------------------- methods.py ------------------------------ *)

Col(data, j) == [i \in 1..Len(data) |-> data[i][j]]
Ones(n) == [i \in 1..n |-> One]

\* A dot product as a matrix product accumulates it: in index order.
RECURSIVE DotFrom(_, _, _, _)
DotFrom(u, v, i, acc) ==
    IF i > Len(u) THEN acc
    ELSE DotFrom(u, v, i + 1, FAdd(acc, FMul(u[i], v[i])))

Dot(u, v) == DotFrom(u, v, 1, Zero)

\* Back substitution: x2 is known, x1 follows from the first row of U.
LuBack(lu, y1, x2) == <<FDiv(FSub(y1, FMul(lu.u12, x2)), lu.u11), x2>>

\* Forward substitution with the unit lower factor, then back substitution.
LuForward(lu, y1, b2) == LuBack(lu, y1, FDiv(FSub(b2, FMul(lu.l, y1)), lu.u22))

\* The solution x of L U x = P b.
LuSolve(lu, b) ==
    IF lu.swap THEN LuForward(lu, b[2], b[1]) ELSE LuForward(lu, b[1], b[2])

\* The inverse, column by column.
LuColumns(c1, c2) == Value(<<<<c1[1], c2[1]>>, <<c1[2], c2[2]>>>>)

\* The second pivot is known: singular when it is exactly zero.
LuInverse(lu) ==
    IF lu.u22.m = 0 THEN Err("LinAlgError", "numpy", "Singular matrix")
    ELSE LuColumns(LuSolve(lu, <<One, Zero>>), LuSolve(lu, <<Zero, One>>))

\* Elimination of the second row with the multiplier l.
LuEliminate(r1, r2, swap, l) ==
    LuInverse([u11 |-> r1[1], u12 |-> r1[2], u22 |-> FSub(r2[2], FMul(l, r1[2])),
               l |-> l, swap |-> swap])

\* The pivot row r1 is chosen: singular when the first pivot is exactly zero.
LuFactor(r1, r2, swap) ==
    IF r1[1].m = 0 THEN Err("LinAlgError", "numpy", "Singular matrix")
    ELSE LuEliminate(r1, r2, swap, FDiv(r2[1], r1[1]))

\* np.linalg.inv of a 2 x 2 matrix <<<<a11, a12>>, <<a21, a22>>>>: the LU
\* factorisation with partial pivoting of LAPACK gesv and the solve against
\* the identity.  The routine reports a singular matrix only when a pivot is
\* exactly zero, and numpy raises LinAlgError only then.
linalg_inv(A) ==
    IF FAbsLess(A[1][1], A[2][1]) THEN LuFactor(A[2], A[1], TRUE)
    ELSE LuFactor(A[1], A[2], FALSE)

\* design.T @ design for design = column_stack((ones, xs)).
Gram(ones, xs) ==
    <<<<Dot(ones, ones), Dot(ones, xs)>>, <<Dot(xs, ones), Dot(xs, xs)>>>>

\* (inv @ design.T) @ ys.
OlsCoef(M, ys) == Value(<<Dot(M[1], ys), Dot(M[2], ys)>>)

\* inv @ design.T, then the product with ys; the error of the inversion is
\* not caught.
OlsApply(inv, xs, ys) ==
    IF IsErr(inv) THEN inv
    ELSE OlsCoef([r \in 1..2 |-> [j \in 1..Len(xs) |-> Dot(inv.val[r], <<One, xs[j]>>)]],
                 ys)

\* Lines 28-30 for the columns xs, ys of a validated dataset.
OlsFit(xs, ys) == OlsApply(linalg_inv(Gram(Ones(Len(xs)), xs)), xs, ys)

\* estimate_beta(data): inv(design.T @ design) @ design.T @ ys, the products
\* taken left to right.
estimate_beta(data) ==
    IF IsErr(validate_xy_data(data, 2)) THEN validate_xy_data(data, 2)
    ELSE OlsFit(Col(data, 1), Col(data, 2))

\* rng.integers(0, n, size=(B, n)): B * n draws, filled row by row.
rng_integers(g, n, B) ==
    [b \in 1..B |-> [i \in 1..n |-> RawAt(g, (b - 1) * n + i) % n]]

\* A faulty data[indices]: the columns are indexed apart, x by the drawn
\* index and y by the position.
TakeRowsApart(data, indices) ==
    [b \in 1..Len(indices) |->
        [i \in 1..Len(indices[b]) |-> <<data[indices[b][i] + 1][1], data[i][2]>>]]

\* data[indices]: row i of resample b is the source row with the drawn index
\* (the model's rows are numbered from 1).
TakeRows(data, indices) ==
    [b \in 1..Len(indices) |-> [i \in 1..Len(indices[b]) |-> data[indices[b][i] + 1]]]

\* bootstrap_samples(data, B, seed): the batch, the generator after the draws
\* and the number of entropy reads.
bootstrap_samples(data, B, seed, fresh) ==
    LET v  == validate_xy_data(data, 2)
        vb == validate_int("B", B, 1)
        vs == validate_rng_seed(seed, fresh)
    IN  IF IsErr(v) THEN v
        ELSE IF IsErr(vb) THEN vb
        ELSE IF IsErr(vs) THEN vs
        ELSE LET n == Len(data)
             IN  Value([samples |-> TakeRows(data, rng_integers(vs.val.rng, n, B.v)),
                        rng     |-> Advance(vs.val.rng, B.v * n),
                        entropy |-> vs.val.entropy])

\* np.sum and np.mean of a short vector: accumulated in index order.
RECURSIVE SumFrom(_, _, _)
SumFrom(v, i, acc) == IF i > Len(v) THEN acc ELSE SumFrom(v, i + 1, FAdd(acc, v[i]))

FSum(v) == SumFrom(v, 1, Zero)

\* (value - mean)^2.
SqDev(d) == FMul(d, d)

\* A faulty deviation: the divisor is n - 2.
StdAboutTwo(values, mean) ==
    Value(FSqrt(FDiv(FSum([i \in 1..Len(values) |-> SqDev(FSub(values[i], mean))]),
                     FromInt(Len(values) - 2))))

\* sqrt(sum((values - mean)^2) / (n - 1)).
StdAbout(values, mean) ==
    Value(FSqrt(FDiv(FSum([i \in 1..Len(values) |-> SqDev(FSub(values[i], mean))]),
                     FromInt(Len(values) - 1))))

\* sample_std(values): the standard deviation with Bessel's correction.
sample_std(values) ==
    IF Len(values) < 2 THEN Err("ValueError", "sample_std", "values")
    ELSE StdAbout(values, FDiv(FSum(values), FromInt(Len(values))))

(* ---------------------------- simulation.py ---------------------------- *)

\* The standard normal draws of the model's generator.
NormalTable == <<Fin(-1, 0), Fin(-1, -1), Fin(1, -1), One>>

\* rng.normal(0, sigma, N) from draw `from` + 1 on: loc + scale * z.
rng_normal(g, sigma, N, from) ==
    [i \in 1..N |-> FAdd(Zero, FMul(sigma, NormalTable[(RawAt(g, from + i) % 4) + 1]))]

\* ys = beta_0 + beta_1 * xs + epsilons, and the stacked columns.
SimRows(beta_0, beta_1, xs, epsilons) ==
    [i \in 1..Len(xs) |-> <<xs[i], FAdd(FAdd(beta_0, FMul(beta_1, xs[i])), epsilons[i])>>]

\* Lines 45-50 with the generator g: xs, then epsilons, then the dataset.
SimDraw(N, beta_0, beta_1, x_sigma, epsilon_sigma, g, reads) ==
    IF IsErr(g) THEN g
    ELSE Value([data    |-> SimRows(beta_0, beta_1, rng_normal(g.val, x_sigma, N, 0),
                                    rng_normal(g.val, epsilon_sigma, N, N)),
                rng     |-> Advance(g.val, 2 * N),
                entropy |-> reads])

\* simulate_data(N, beta_0, beta_1, x_sigma, epsilon_sigma, seed): the dataset,
\* the generator after the draws and the number of entropy reads.
simulate_data(N, beta_0, beta_1, x_sigma, epsilon_sigma, seed, fresh) ==
    IF IsErr(validate_int("N", N, 2)) THEN validate_int("N", N, 2)
    ELSE IF IsErr(validate_positive("x_sigma", x_sigma))
         THEN validate_positive("x_sigma", x_sigma)
    ELSE IF IsErr(validate_positive("epsilon_sigma", epsilon_sigma))
         THEN validate_positive("epsilon_sigma", epsilon_sigma)
    ELSE SimDraw(N.v, beta_0, beta_1, x_sigma, epsilon_sigma,
                 numpy_default_rng(seed, fresh),
                 IF seed.t = "NoneType" THEN 1 ELSE 0)

(* ------------------------ bootstrap_beta, stepwise ---------------------- *)

NoRng  == [seed |-> -1, state |-> 0, drawn |-> 0]
NoRun  == [seed |-> -1, simSeed |-> PyNone, bootSeed |-> PyNone,
           data |-> <<>>, beta_hat |-> <<>>]
NoRef  == [set |-> FALSE, out |-> NoOutcome]
NoCall == [op |-> "", data |-> <<>>, B |-> PyNone, parallel |-> FALSE,
           n_jobs |-> PyNone, seed |-> PyNone, N |-> PyNone, beta_0 |-> Zero,
           beta_1 |-> Zero, x_sigma |-> Zero, epsilon_sigma |-> Zero]

Slot(st, res) == [st |-> st, res |-> res]

\* A faulty bootstrap_beta: the batch is made lazily, so that the generator
\* has drawn nothing when the refits start.
bootstrap_beta_enter_lazy(data, B, parallel, n_jobs, seed, fresh) ==
    LET v  == validate_xy_data(data, 2)
        vb == validate_int("B", B, 2)
        vj == validate_int("n_jobs", n_jobs, 1)
        vs == validate_rng_seed(seed, fresh)
    IN  IF IsErr(v) THEN v
        ELSE IF IsErr(vb) THEN vb
        ELSE IF IsErr(vj) THEN vj
        ELSE IF IsErr(vs) THEN vs
        ELSE Value([samples |-> bootstrap_samples(data, B, PyInt(vs.val.seed), fresh).val.samples,
                    rng     |-> vs.val.rng,
                    entropy |-> vs.val.entropy])

\* bootstrap_beta up to and including line 130: the validation, then the
\* call of bootstrap_samples with the validated seed.
bootstrap_beta_enter(data, B, parallel, n_jobs, seed, fresh) ==
    LET v  == validate_xy_data(data, 2)
        vb == validate_int("B", B, 2)
        vj == validate_int("n_jobs", n_jobs, 1)
        vs == validate_rng_seed(seed, fresh)
    IN  IF IsErr(v) THEN v
        ELSE IF IsErr(vb) THEN vb
        ELSE IF IsErr(vj) THEN vj
        ELSE IF IsErr(vs) THEN vs
        ELSE LET r == bootstrap_samples(data, B, PyInt(vs.val.seed), fresh)
             IN  IF IsErr(r) THEN r
                 ELSE Value([r.val EXCEPT !.entropy = r.val.entropy + vs.val.entropy])

\* The resample the i-th refit of the list comprehension is given (line 132).
SeqInput(batch, i) == batch[i]

\* A faulty task input: the tasks are created with a reference to the loop
\* variable and all see its last value.
TaskInputLate(batch, i) == batch[Len(batch)]

\* The resample the i-th task of the pool is given (line 135): the generator
\* expression binds each task's argument when the task is created.
TaskInput(batch, i) == batch[i]

IsDone(slot) == slot.st = "done"
ResultOf(slots) == [i \in 1..Len(slots) |-> slots[i].res]

\* The results of the finished tasks, in input order.
Finished(slots) == ResultOf(SelectSeq(slots, IsDone))

IsValue(r) == IsVal(r)

\* A faulty collection: failed refits are left out.
CollectDropping(results) ==
    Value([i \in 1..Len(SelectSeq(results, IsValue)) |-> SelectSeq(results, IsValue)[i].val])

\* The list the refits produce: the first exception among the results, or
\* all the coefficient vectors.
Collect(results) ==
    LET bad == {i \in 1..Len(results) : IsErr(results[i])}
    IN  IF bad # {} THEN results[CHOOSE i \in bad : \A j \in bad : i <= j]
        ELSE Value([i \in 1..Len(results) |-> results[i].val])

\* Lines 137-139: betas[:, 1] and its sample standard deviation.
Reduce(coefs) == sample_std([i \in 1..Len(coefs) |-> coefs[i][2]])

(* -------------------------------- cli.py -------------------------------- *)

\* A faulty call of bootstrap_beta: main passes args.seed on as it came.
BootSeedArgRaw(argSeed, seed) == argSeed

\* The seed main passes to simulate_data and to bootstrap_beta.
SimSeedArg(argSeed, seed)  == PyInt(seed)
BootSeedArg(argSeed, seed) == PyInt(seed)

\* main's result once bootstrap_beta has returned or raised: an exception is
\* not caught; otherwise the result dictionary.
MainResult(o) ==
    IF IsErr(o) THEN o
    ELSE Value([seed |-> run.seed, N |-> call.N.v, B |-> call.B.v,
                beta_hat |-> run.beta_hat, se_boot_beta1 |-> o.val])

\* What the finished call leaves as its outcome.
Return(o) == IF frame = "main" THEN MainResult(o) ELSE o

(* ------------------------------- inputs -------------------------------- *)

\* The rows datasets are made of: two on the line y = x, one off it whose x
\* value 5/4 has a square that is not representable.
C54 == Fin(5, -2)
RowList == <<<<Zero, Zero>>, <<One, One>>, <<C54, Zero>>>>
\* The datasets of 1..MaxN rows, rows in the order of RowList, and one dataset
\* with a NaN entry.
RECURSIVE Sorted(_, _)
Sorted(n, from) ==
    IF n = 0 THEN {<<>>}
    ELSE UNION {{<<RowList[k]>> \o t : t \in Sorted(n - 1, k)} : k \in from..Len(RowList)}
NaNData  == <<<<Zero, NaN>>, <<One, One>>>>
Datasets == UNION {Sorted(n, 1) : n \in 1..MaxN} \cup {NaNData}
Seeds    == {PyNone, PyBool(1), PyFloat(1), PyInt(-1)} \cup {PyInt(k) : k \in 0..MaxSeed}
IntSeeds == {PyNone, PyInt(-1)} \cup {PyInt(k) : k \in 0..MaxSeed}
Fresh    == 0..MaxSeed
Counts   == {PyInt(k) : k \in 0..MaxB}
Sizes    == {PyInt(k) : k \in 1..MaxN}
Jobs     == {PyInt(k) : k \in 0..MaxJobs}
\* n_jobs is read only in parallel mode: sequential calls leave it at its
\* default of 1, or give the invalid 0.
JobsFor(p) == IF p THEN Jobs ELSE {PyInt(0), PyInt(1)}
Betas    == {One, NaN}
Sigmas   == {Zero, One}

(* ------------------------------- actions ------------------------------- *)

Init ==
    /\ pc = "idle"
    /\ call = NoCall
    /\ frame = "api"
    /\ run = NoRun
    /\ samples = <<>>
    /\ betas = <<>>
    /\ rng = NoRng
    /\ entropy = 0
    /\ outcome = NoOutcome
    /\ ref = NoRef

\* A call with new arguments starts from nothing; a repetition of the last
\* call remembers that call's outcome (of the first call, when it is repeated
\* more than once).  Calls are repeated to reproduce a result: with a seed.
New(c) ==
    /\ call' = c
    /\ ref' = NoRef

Again(c) ==
    /\ call' = c
    /\ ref' = IF ref.set THEN ref ELSE [set |-> TRUE, out |-> outcome]

CanStart  == pc = "idle" /\ outcome = NoOutcome
CanRepeat(op) ==
    pc = "idle" /\ outcome # NoOutcome /\ call.op = op /\ call.seed # PyNone

\* The entropy a call can read: any seed when it is given none, and nothing
\* otherwise.
FreshFor(seed) == IF seed = PyNone THEN Fresh ELSE {0}

\* estimate_beta(data), called from outside.
CallEstimateBeta ==
    /\ CanStart
    /\ \E d \in Datasets :
        /\ New([NoCall EXCEPT !.op = "estimate_beta", !.data = d])
        /\ outcome' = estimate_beta(d)
        /\ frame' = "api"
        /\ run' = NoRun
        /\ samples' = <<>>
        /\ betas' = <<>>
        /\ rng' = NoRng
        /\ entropy' = 0
        /\ pc' = "idle"

\* A call from outside returns: r is an exception, or a record whose given
\* field is the value returned, with the generator used and the entropy read.
Returned(r, field) ==
    /\ outcome' = IF IsErr(r) THEN r ELSE Value(r.val[field])
    /\ rng' = IF IsErr(r) THEN NoRng ELSE r.val.rng
    /\ entropy' = IF IsErr(r) THEN 0 ELSE r.val.entropy
    /\ frame' = "api"
    /\ run' = NoRun
    /\ samples' = <<>>
    /\ betas' = <<>>
    /\ pc' = "idle"

\* simulate_data with the arguments c, reading the entropy f.
DoSimulateData(c, f) ==
    LET r == simulate_data(c.N, c.beta_0, c.beta_1, c.x_sigma, c.epsilon_sigma, c.seed, f)
    IN  Returned(r, "data")

\* simulate_data(...), called from outside.
CallSimulateData ==
    /\ CanStart
    /\ \E n \in Sizes, b0 \in Betas, xs \in Sigmas, sd \in Seeds :
         LET c == [NoCall EXCEPT !.op = "simulate_data", !.N = n, !.beta_0 = b0,
                                 !.beta_1 = One, !.x_sigma = xs,
                                 !.epsilon_sigma = One, !.seed = sd]
         IN  \E f \in FreshFor(sd) : New(c) /\ DoSimulateData(c, f)

\* simulate_data called again with the arguments of the call before.
RepeatSimulateData ==
    /\ CanRepeat("simulate_data")
    /\ \E f \in FreshFor(call.seed) : Again(call) /\ DoSimulateData(call, f)

\* bootstrap_samples with the arguments c, reading the entropy f.
DoBootstrapSamples(c, f) ==
    LET r == bootstrap_samples(c.data, c.B, c.seed, f)
    IN  Returned(r, "samples")

\* bootstrap_samples(data, B, seed), called from outside.
CallBootstrapSamples ==
    /\ CanStart
    /\ \E d \in Datasets, b \in Counts, sd \in Seeds :
         LET c == [NoCall EXCEPT !.op = "bootstrap_samples", !.data = d, !.B = b,
                                 !.seed = sd]
         IN  \E f \in FreshFor(sd) : New(c) /\ DoBootstrapSamples(c, f)

\* bootstrap_samples called again with the arguments of the call before.
RepeatBootstrapSamples ==
    /\ CanRepeat("bootstrap_samples")
    /\ \E f \in FreshFor(call.seed) : Again(call) /\ DoBootstrapSamples(call, f)

\* The state bootstrap_beta is in after line 130: failed, with an exception
\* that main does not catch either, or about to refit.
EnterRefit(r) ==
    IF IsErr(r)
    THEN /\ outcome' = r
         /\ samples' = <<>>
         /\ betas' = <<>>
         /\ rng' = NoRng
         /\ pc' = "idle"
    ELSE /\ outcome' = NoOutcome
         /\ samples' = r.val.samples
         /\ betas' = [i \in 1..Len(r.val.samples) |-> Slot("pending", NoOutcome)]
         /\ rng' = r.val.rng
         /\ pc' = "refit"

\* bootstrap_beta with the arguments c, reading the entropy f.
Entered(r) ==
    /\ frame' = "api"
    /\ run' = NoRun
    /\ entropy' = IF IsErr(r) THEN 0 ELSE r.val.entropy
    /\ EnterRefit(r)

DoBootstrapBeta(c, f) ==
    LET r == bootstrap_beta_enter(c.data, c.B, c.parallel, c.n_jobs, c.seed, f)
    IN  Entered(r)

\* bootstrap_beta(data, B, parallel, n_jobs, seed), called from outside.
CallBootstrapBeta ==
    /\ CanStart
    /\ \E d \in Datasets, b \in Counts, p \in BOOLEAN, sd \in Seeds :
       \E j \in JobsFor(p) :
         LET c == [NoCall EXCEPT !.op = "bootstrap_beta", !.data = d, !.B = b,
                                 !.parallel = p, !.n_jobs = j, !.seed = sd]
         IN  \E f \in FreshFor(sd) : New(c) /\ DoBootstrapBeta(c, f)

\* bootstrap_beta called again with the data, B and seed of the call before,
\* in either mode and with any number of workers: a sequential call with a
\* valid n_jobs is the reference, the repetitions keep n_jobs valid.
RepeatBootstrapBeta ==
    /\ CanRepeat("bootstrap_beta")
    /\ ref.set \/ ~call.parallel
    /\ call.n_jobs.v >= 1
    /\ \E p \in BOOLEAN :
       \E j \in JobsFor(p) \ {PyInt(0)} :
         LET c == [call EXCEPT !.parallel = p, !.n_jobs = j]
         IN  \E f \in FreshFor(call.seed) : Again(c) /\ DoBootstrapBeta(c, f)

Running == {i \in 1..Len(betas) : betas[i].st = "running"}
Pending == {i \in 1..Len(betas) : betas[i].st = "pending"}
FirstPending == CHOOSE k \in Pending : \A m \in Pending : k <= m
AllDone == \A i \in 1..Len(betas) : betas[i].st = "done"

\* What the refits so far amount to: an exception, or the vectors so far.
SoFar(slots) == Collect(Finished(slots))

\* The call ends: with the exception, or with the standard error.
Finish(got) ==
    /\ outcome' = Return(IF IsErr(got) THEN got ELSE Reduce(got.val))
    /\ pc' = "idle"

\* Line 132: the next refit of the list comprehension.  An exception ends the
\* call at once; the last refit is followed by lines 137-139.
SeqRefit ==
    /\ pc = "refit"
    /\ ~call.parallel
    /\ Pending # {}
    /\ betas' = [betas EXCEPT ![FirstPending] =
                                Slot("done", estimate_beta(SeqInput(samples, FirstPending)))]
    /\ IF IsErr(SoFar(betas')) \/ Pending = {FirstPending}
       THEN Finish(SoFar(betas'))
       ELSE UNCHANGED <<pc, outcome>>
    /\ UNCHANGED <<call, frame, run, samples, rng, entropy, ref>>

\* Lines 134-136: the pool hands the next task, in input order, to a free
\* worker; at most n_jobs tasks run at once.
Dispatch ==
    /\ pc = "refit"
    /\ call.parallel
    /\ Pending # {}
    /\ Cardinality(Running) < call.n_jobs.v
    /\ betas' = [betas EXCEPT ![FirstPending].st = "running"]
    /\ UNCHANGED <<pc, call, frame, run, samples, rng, entropy, outcome, ref>>

\* A worker finishes its refit, in any order; its result, a vector or an
\* exception, goes to the task's own slot.
WorkerDone ==
    /\ pc = "refit"
    /\ call.parallel
    /\ \E i \in Running :
          betas' = [betas EXCEPT ![i] = Slot("done", estimate_beta(TaskInput(samples, i)))]
    /\ UNCHANGED <<pc, call, frame, run, samples, rng, entropy, outcome, ref>>

\* Parallel(...) raises the exception of a failed task to its caller.
ParallelRaise ==
    /\ pc = "refit"
    /\ call.parallel
    /\ IsErr(SoFar(betas))
    /\ Finish(SoFar(betas))
    /\ UNCHANGED <<call, frame, run, samples, betas, rng, entropy, ref>>

\* Parallel(...) returns the results in input order; lines 137-139 follow.
ParallelReturn ==
    /\ pc = "refit"
    /\ call.parallel
    /\ AllDone
    /\ ~IsErr(SoFar(betas))
    /\ Finish(SoFar(betas))
    /\ UNCHANGED <<call, frame, run, samples, betas, rng, entropy, ref>>

\* main from line 137 on, in steps: the seeds passed on, the data, the
\* estimate, the entropy read so far and what the last step gave.
MainEnter(seed, argSeed, data, beta_hat, reads, r) ==
    [run     |-> [seed |-> seed, simSeed |-> SimSeedArg(argSeed, seed),
                  bootSeed |-> BootSeedArg(argSeed, seed), data |-> data,
                  beta_hat |-> beta_hat],
     entropy |-> reads + (IF IsErr(r) THEN 0 ELSE r.val.entropy),
     r       |-> r]

\* Lines 151-157: bootstrap_beta with the validated seed.
MainBoot(c, seed, h, data, reads, fit) ==
    IF IsErr(fit) THEN MainEnter(seed, c.seed, data, <<>>, reads, fit)
    ELSE MainEnter(seed, c.seed, data, fit.val, reads,
                   bootstrap_beta_enter(data, c.B, c.parallel, c.n_jobs,
                                        BootSeedArg(c.seed, seed), h))

\* Line 146: estimate_beta on the simulated data.
MainFit(c, seed, h, reads, sim) ==
    IF IsErr(sim) THEN MainEnter(seed, c.seed, <<>>, <<>>, reads, sim)
    ELSE MainBoot(c, seed, h, sim.val.data, reads + sim.val.entropy,
                  estimate_beta(sim.val.data))

\* Lines 137-144: simulate_data with the validated seed.
MainSimulate(c, vs, g, h) ==
    MainFit(c, vs.seed, h, vs.entropy,
            simulate_data(c.N, c.beta_0, c.beta_1, c.x_sigma, c.epsilon_sigma,
                          SimSeedArg(c.seed, vs.seed), g))

\* Lines 113-125: main returns 2 when a validator raises.
MainInvalid(c, f) ==
    \/ IsErr(validate_int("N", c.N, 2))
    \/ IsErr(validate_int("B", c.B, 2))
    \/ IsErr(validate_int("n_jobs", c.n_jobs, 1))
    \/ IsErr(validate_positive("x_sigma", c.x_sigma))
    \/ IsErr(validate_positive("eps_sigma", c.epsilon_sigma))
    \/ IsErr(validate_rng_seed(c.seed, f))

\* main with the arguments c; f, g, h are the entropy the validation,
\* simulate_data and bootstrap_beta would read.
DoMain(c, f, g, h) ==
    /\ New(c)
    /\ frame' = "main"
    /\ IF MainInvalid(c, f)
       THEN /\ outcome' = [NoOutcome EXCEPT !.kind = "exit", !.val = 2]
            /\ run' = NoRun
            /\ entropy' = 0
            /\ samples' = <<>>
            /\ betas' = <<>>
            /\ rng' = NoRng
            /\ pc' = "idle"
       ELSE LET m == MainSimulate(c, validate_rng_seed(c.seed, f).val, g, h)
            IN  /\ run' = m.run
                /\ entropy' = m.entropy
                /\ EnterRefit(m.r)

\* cli.main: the validation, simulate_data, estimate_beta and bootstrap_beta
\* up to its refits; the refits and the result follow.
MainStart ==
    /\ CanStart
    /\ \E n \in Sizes, b \in Counts, p \in BOOLEAN, sd \in IntSeeds, b0 \in Betas, xs \in Sigmas :
       \E j \in JobsFor(p), f \in FreshFor(sd), g \in FreshFor(SimSeedArg(sd, 0)),
          h \in FreshFor(BootSeedArg(sd, 0)) :
         DoMain([NoCall EXCEPT !.op = "main", !.N = n, !.B = b, !.parallel = p,
                               !.n_jobs = j, !.seed = sd, !.beta_0 = b0,
                               !.beta_1 = One, !.x_sigma = xs, !.epsilon_sigma = One],
                f, g, h)

\* The caller is done with the result: the next call starts from nothing.
Forget ==
    /\ pc = "idle"
    /\ outcome # NoOutcome
    /\ pc' = "idle"
    /\ call' = NoCall
    /\ frame' = "api"
    /\ run' = NoRun
    /\ samples' = <<>>
    /\ betas' = <<>>
    /\ rng' = NoRng
    /\ entropy' = 0
    /\ outcome' = NoOutcome
    /\ ref' = NoRef

Next ==
    \/ CallEstimateBeta
    \/ CallSimulateData
    \/ RepeatSimulateData
    \/ CallBootstrapSamples
    \/ RepeatBootstrapSamples
    \/ CallBootstrapBeta
    \/ RepeatBootstrapBeta
    \/ SeqRefit
    \/ Dispatch
    \/ WorkerDone
    \/ ParallelRaise
    \/ ParallelReturn
    \/ MainStart
    \/ Forget

Spec == Init /\ [][Next]_vars

(* ------------------------------ properties ----------------------------- *)

\* A call has returned or raised, and its result has not been forgotten.
Ended(op) == pc = "idle" /\ outcome # NoOutcome /\ call.op = op

\* The dataset has at least two rows and two distinct x values.
NonDegenerate(data) ==
    /\ Len(data) >= 2
    /\ \E i, j \in 1..Len(data) : data[i][1] # data[j][1]

\* The dataset has at least two rows, all finite and all with one x value.
SingularDesign(data) ==
    /\ ~IsErr(validate_xy_data(data, 2))
    /\ \A i, j \in 1..Len(data) : data[i][1] = data[j][1]

SlotFailed(i) == betas[i].st = "done" /\ IsErr(betas[i].res)
SlotFitted(i) == betas[i].st = "done" /\ IsVal(betas[i].res)

\* C1: a parallel bootstrap_beta, with any number of workers finishing in any
\* order, ends with the outcome the sequential call on the same data, B and
\* seed ended with.
ParallelEqualsSequential ==
    (Ended("bootstrap_beta") /\ call.parallel /\ ref.set) => outcome = ref.out

ParallelEqualsSequentialWitness ==
    /\ Ended("bootstrap_beta")
    /\ call.parallel
    /\ call.n_jobs.v = MaxJobs
    /\ ref.set
    /\ IsVal(outcome)
    /\ outcome.val.m > 0

\* C2: when the refit of a resample has failed, bootstrap_beta ends with that
\* exception and with no value, in either mode; a value is computed from the
\* slopes of all B refits.
FailFast ==
    Ended("bootstrap_beta") =>
        /\ \A i \in 1..Len(betas) : SlotFailed(i) => outcome = betas[i].res
        /\ IsVal(outcome) => /\ Len(betas) = call.B.v
                             /\ \A i \in 1..Len(betas) : SlotFitted(i)

FailFastWitness ==
    /\ Ended("bootstrap_beta")
    /\ call.parallel
    /\ IsErr(outcome)
    /\ \E i, j \in 1..Len(betas) : SlotFailed(i) /\ SlotFitted(j)

\* C3: estimate_beta on a valid dataset whose x values are all equal raises
\* the singular-design exception and returns no coefficients.
SingularDesignRaises ==
    (Ended("estimate_beta") /\ SingularDesign(call.data)) =>
        (IsErr(outcome) /\ outcome.exc = "LinAlgError")

\* C4: with a supplied seed, a repeated call of simulate_data, of
\* bootstrap_samples or of bootstrap_beta ends as the first call with those
\* arguments did.
SeedDeterminism ==
    (/\ pc = "idle"
     /\ outcome # NoOutcome
     /\ call.op \in {"simulate_data", "bootstrap_samples", "bootstrap_beta"}
     /\ ref.set) => outcome = ref.out

SeedDeterminismWitness ==
    /\ Ended("simulate_data")
    /\ ref.set
    /\ IsVal(outcome)
    /\ rng.drawn > 0

\* C5: the batch bootstrap_samples returns has B resamples of N rows, and
\* each row is a row of the source dataset.
BatchShape ==
    (Ended("bootstrap_samples") /\ IsVal(outcome)) =>
        /\ Len(outcome.val) = call.B.v
        /\ \A b \in 1..Len(outcome.val) :
            /\ Len(outcome.val[b]) = Len(call.data)
            /\ \A i \in 1..Len(outcome.val[b]) :
                /\ Len(outcome.val[b][i]) = 2
                /\ \E k \in 1..Len(call.data) : outcome.val[b][i] = call.data[k]

BatchShapeWitness ==
    /\ Ended("bootstrap_samples")
    /\ IsVal(outcome)
    /\ call.B.v >= 2
    /\ NonDegenerate(call.data)
    /\ \E b \in 1..Len(outcome.val) : outcome.val[b] # call.data

\* C6: estimate_beta on fewer than 2 rows, simulate_data with N < 2 and
\* bootstrap_beta with B < 2 raise ValueError and return nothing; simulate_data
\* and bootstrap_beta have then drawn nothing, and bootstrap_beta has made no
\* resample and run no refit.
MinimumSizes ==
    /\ (Ended("estimate_beta") /\ Len(call.data) < 2) =>
            (IsErr(outcome) /\ outcome.exc = "ValueError" /\ outcome.arg = "rows")
    /\ (Ended("simulate_data") /\ call.N.v < 2) =>
            (IsErr(outcome) /\ outcome.exc = "ValueError" /\ rng = NoRng)
    /\ (call.op = "bootstrap_beta" /\ call.B.v < 2) =>
            /\ pc = "idle"
            /\ IsErr(outcome) /\ outcome.exc = "ValueError"
            /\ rng = NoRng /\ samples = <<>> /\ betas = <<>>

MinimumSizesWitness ==
    /\ Ended("bootstrap_beta")
    /\ call.B.v = 1
    /\ NonDegenerate(call.data)
    /\ call.seed = PyInt(0)
    /\ outcome = Err("ValueError", "validate_int", "B")

\* C7: a call of simulate_data, bootstrap_samples or bootstrap_beta with a
\* negative, a bool or a float seed ends with an exception, and the exception
\* is not one raised by numpy.
SeedValidated ==
    (/\ pc = "idle"
     /\ outcome # NoOutcome
     /\ call.op \in {"simulate_data", "bootstrap_samples", "bootstrap_beta"}
     /\ call.seed \in {PyInt(-1), PyBool(1), PyFloat(1)}) =>
        (IsErr(outcome) /\ outcome.by # "numpy")

SimulatedDataValid ==
    (Ended("simulate_data") /\ IsVal(outcome)) =>
        /\ Len(outcome.val) = call.N.v
        /\ ~IsErr(validate_xy_data(outcome.val, 2))

\* C10: in a run of main one seed governs everything: it is the supplied seed
\* when there is one, it is read from the entropy exactly once when there is
\* none, it is passed to simulate_data and to bootstrap_beta, it seeds the
\* resampler, and it is the seed reported.
OneSeed ==
    (frame = "main" /\ run # NoRun) =>
        /\ call.seed # PyNone => run.seed = call.seed.v
        /\ entropy = (IF call.seed = PyNone THEN 1 ELSE 0)
        /\ run.seed >= 0
        /\ run.simSeed = PyInt(run.seed)
        /\ run.bootSeed = PyInt(run.seed)
        /\ pc = "refit" => rng.seed = run.seed
        /\ (pc = "idle" /\ IsVal(outcome)) =>
                (outcome.val.seed = run.seed /\ rng.seed = run.seed)

OneSeedWitness ==
    /\ frame = "main"
    /\ pc = "idle"
    /\ IsVal(outcome)
    /\ call.seed = PyNone
    /\ entropy = 1
    /\ outcome.val.seed = rng.seed
    /\ outcome.val.se_boot_beta1.m > 0

\* Exact arithmetic on finite values, for stating what a result should be:
\* the product and the difference of m * 2^e values, unrounded.
XMul(a, b) == [m |-> a.m * b.m, e |-> a.e + b.e]
XSub(a, b) ==
    [m |-> a.m * Pow2(a.e - Min(a.e, b.e)) - b.m * Pow2(b.e - Min(a.e, b.e)),
     e |-> Min(a.e, b.e)]
XEq(a, b) == XSub(a, b).m = 0

\* The first row of the dataset whose x value differs from that of row 1.
SecondPoint(data) ==
    data[CHOOSE i \in 1..Len(data) :
            /\ data[i][1] # data[1][1]
            /\ \A j \in 1..(i - 1) : data[j][1] = data[1][1]]

\* The rows satisfy y = a + b * x exactly, for the line through p and q.
OnLine(data, p, q) ==
    \A i \in 1..Len(data) :
        XEq(XMul(XSub(data[i][2], p[2]), XSub(q[1], p[1])),
            XMul(XSub(q[2], p[2]), XSub(data[i][1], p[1])))

\* coef is (a, b) for the line through p and q: b * dx = dy and
\* a * dx = p.y * dx - dy * p.x.
IsLine(coef, p, q) ==
    /\ Len(coef) = 2
    /\ IsFinite(coef[1]) /\ IsFinite(coef[2])
    /\ XEq(XMul(coef[2], XSub(q[1], p[1])), XSub(q[2], p[2]))
    /\ XEq(XMul(coef[1], XSub(q[1], p[1])),
           XSub(XMul(p[2], XSub(q[1], p[1])), XMul(XSub(q[2], p[2]), p[1])))

\* C11: on a dataset with two distinct x values whose rows lie exactly on a
\* line y = a + b * x, estimate_beta returns the two coefficients (a, b).
NoiselessRecovery ==
    (/\ Ended("estimate_beta")
     /\ ~IsErr(validate_xy_data(call.data, 2))
     /\ NonDegenerate(call.data)
     /\ OnLine(call.data, call.data[1], SecondPoint(call.data))) =>
        (IsVal(outcome) /\ IsLine(outcome.val, call.data[1], SecondPoint(call.data)))

\* The number of rows of the dataset bootstrap_beta resamples.
Rows == IF frame = "main" THEN Len(run.data) ELSE Len(call.data)

\* C12: in a parallel bootstrap_beta, once a refit task has been handed to a
\* worker the generator has made all its B * N draws and the batch of B
\* resamples of N rows is complete, and both stay so to the end of the call;
\* no more than n_jobs refits run at the same time.
DrawsBeforeFanOut ==
    (/\ call.parallel
     /\ \E i \in 1..Len(betas) : betas[i].st # "pending") =>
        /\ rng.drawn = call.B.v * Rows
        /\ Len(samples) = call.B.v
        /\ \A b \in 1..Len(samples) : Len(samples[b]) = Rows
        /\ Len(betas) = call.B.v
        /\ Cardinality({i \in 1..Len(betas) : betas[i].st = "running"}) <= call.n_jobs.v

DrawsBeforeFanOutWitness ==
    /\ pc = "refit"
    /\ call.parallel
    /\ call.n_jobs.v = MaxJobs
    /\ call.B.v > MaxJobs
    /\ Cardinality({i \in 1..Len(betas) : betas[i].st = "running"}) = MaxJobs
    /\ \E i \in 1..Len(betas) : betas[i].st = "done"
    /\ rng.drawn = call.B.v * Rows
    /\ rng.drawn > 0
====
